---- MODULE Spec2Model ----
(***************************************************************************)
(* BulkLifecycleManager (django_bulk_hooks/manager.py) and the Priority    *)
(* enumeration (django_bulk_lifecycle/priority.py) as a state machine.     *)
(*                                                                         *)
(* One interpreter thread runs a stack of manager calls.  Every manager    *)
(* method is wrapped in transaction.atomic: a frame remembers the storage  *)
(* as it was when the method was entered, and an exception that leaves    *)
(* the method restores it.  engine.run and TriggerContext live outside the *)
(* two source files; they are modelled from the specification (section     *)
(* 4.2, 4.3) and marked so in the map.                                     *)
(***************************************************************************)
EXTENDS Integers, Sequences, FiniteSets, TLC

\* TLC keeps the fields of a record in the order in which their names first
\* occur in the module.  Every record of this module is written with its fields
\* in this one order, so that a record is in TLC's order as it is built.
FieldOrder ==
    [a |-> 0, act |-> 0, b |-> 0, bypass |-> 0, call |-> 0, cls |-> 0,
     ctx |-> 0, db |-> 0, done |-> 0, event |-> 0, exc |-> 0, fields |-> 0,
     hooks |-> 0, i |-> 0, id |-> 0, inst |-> 0, k |-> 0, kind |-> 0,
     mark |-> 0, model_cls |-> 0, objs |-> 0, ok |-> 0, op |-> 0, orig |-> 0,
     originals |-> 0, outcome |-> 0, parent |-> 0, pc |-> 0, pk |-> 0,
     pks |-> 0, prio |-> 0, raiser |-> 0, rctx |-> 0, refs |-> 0, reg |-> 0,
     result |-> 0, ret |-> 0, retkind |-> 0, rows |-> 0, saw |-> 0, seq |-> 0,
     sp |-> 0, val |-> 0]

\* ------------------------------------------------------------ constants

\* BulkLifecycleManager.CHUNK_SIZE
CHUNK_SIZE == 200

\* Priority(IntEnum); in the mutant HIGH sorts after LOW
HIGHEST == 0
HighAfterLow == 75 + 5
HIGH == 25
NORMAL == 50
LOW == 75
LOWEST == 100

\* Python's None, for a primary key that is not assigned and a ctx not built
None == -1

\* ------------------------------------------------------------ bounds

\* top-level calls in one behaviour
MaxCalls == 2
\* hooks registered, where every registration order is tried
MaxHooks == 3
\* the largest batch spans MaxChunks chunks
MaxChunks == 2
\* manager calls nested inside one another (a hook that calls the manager)
MaxDepth == 2

VARIABLES
    registry,   \* the registered hooks, in registration order
    pkName,     \* name of the bound model's primary-key field
    db,         \* storage as the running transaction sees it
    stack,      \* the manager calls in progress, outermost first
    callNo,     \* top-level calls made so far
    pre,        \* storage when the current/last top-level call began
    calls,      \* manager calls made during the current/last top-level call
                \* (done: the call has returned)
    events,     \* engine.run invocations during the current/last top-level call
    hookLog,    \* hooks executed during the current/last top-level call
    stor,       \* storage calls issued during the current/last top-level call
    last,       \* how the last top-level call ended
    ctxs,       \* every TriggerContext built so far; its index is its identity
    usedCtx,    \* contexts that earlier top-level calls handed to the engine
    totalRuns,  \* engine.run invocations since the start
    allBypass,  \* every top-level call so far was a bulk_* call with bypass_hooks=True
    atomics     \* manager calls of the current/last top-level call that have
                \* entered their transaction.atomic block, in order

vars == <<registry, pkName, db, stack, callNo, pre, calls, events, hookLog,
          stor, last, ctxs, usedCtx, totalRuns, allBypass, atomics>>

\* ------------------------------------------------------------ data

\* the entity type the manager is bound to (self.model) and an unrelated one
ModelCls == "Model"
OtherCls == "Other"

\* obj._meta.fields of the bound model: the primary-key field and two columns
MetaFields(pk) == <<pk, "a", "b">>

\* an in-memory entity instance
Obj(cls, pk, a, b) == [a |-> a, b |-> b, cls |-> cls, pk |-> pk]

\* a stored row read back as an instance (what a queryset yields)
FromRow(pk, row) == Obj(ModelCls, pk, row.a, row.b)

Min(x, y) == IF x <= y THEN x ELSE y

\* objs[i : i + CHUNK_SIZE] as the positions of objs it holds (i counts from 0);
\* the mutant slices from the start of objs every time
ChunkRefsFromStart(n, i) == [j \in 1..(Min(i + CHUNK_SIZE, n) - i) |-> j]
ChunkRefs(n, i) == [j \in 1..(Min(i + CHUNK_SIZE, n) - i) |-> i + j]

\* range(0, len(objs), CHUNK_SIZE): is there a chunk starting at i
HasChunk(n, i) == i < n

\* the list objs itself, as references to its elements
AllRefs(objs) == [j \in 1..Len(objs) |-> j]

\* any(not isinstance(obj, model_cls) for obj in objs): the mutant never finds one
TypeMismatchNever(objs) == FALSE
TypeMismatch(objs) == \E j \in 1..Len(objs) : objs[j].cls # ModelCls

\* "if not objs": the empty list is falsy; the mutant takes nothing for empty
IsEmptyNever(objs) == FALSE
IsEmpty(objs) == Len(objs) = 0

\* "if not objs: return []" opens bulk_update and bulk_delete; bulk_create has
\* no such statement.  The mutant gives it one.
ReturnsOnEmptyAll(op, objs) == IsEmpty(objs)
ReturnsOnEmpty(op, objs) == op # "bulk_create" /\ IsEmpty(objs)

\* "if obj.pk": None and 0 are falsy; the mutant tests the opposite
TruthyInverted(pk) == ~(pk # None /\ pk # 0)
Truthy(pk) == pk # None /\ pk # 0

\* ------------------------------------------------------------ storage
\* The persistence layer (django.db): a table keyed by primary key, and the
\* counter the table draws a primary key from when an instance has none.

Row(o) == [a |-> o.a, b |-> o.b]

\* model_cls.objects.filter(pk__in=pks), in primary-key order
RECURSIVE FetchRange(_, _, _, _)
FetchRange(d, pks, lo, hi) ==
    IF lo > hi THEN <<>>
    ELSE IF lo = hi
         THEN IF lo \in pks /\ lo \in DOMAIN d.rows
              THEN <<FromRow(lo, d.rows[lo])>> ELSE <<>>
         ELSE LET mid == (lo + hi) \div 2
              IN  FetchRange(d, pks, lo, mid) \o FetchRange(d, pks, mid + 1, hi)

FetchByPks(d, pks) == FetchRange(d, pks, 0, d.seq)

\* super().bulk_create(chunk), one instance: it takes the next primary key when
\* it has none; a primary key already stored is an IntegrityError.  s holds the
\* storage, the instances and whether all went well so far.
InsertOne(s, j) ==
    LET o == s.objs[j]
        pk == IF o.pk # None THEN o.pk ELSE s.db.seq + 1
    IN  IF ~s.ok \/ pk \in DOMAIN s.db.rows
        THEN [s EXCEPT !.ok = FALSE]
        ELSE [db |-> [rows |-> [q \in DOMAIN s.db.rows \cup {pk} |->
                                  IF q = pk THEN Row(o) ELSE s.db.rows[q]],
                      seq |-> IF pk > s.db.seq THEN pk ELSE s.db.seq],
              objs |-> [s.objs EXCEPT ![j].pk = pk],
              ok |-> TRUE]

\* super().bulk_create(chunk): the instances lo..hi of objs, in order
RECURSIVE InsertRange(_, _, _)
InsertRange(s, lo, hi) ==
    IF lo > hi THEN s
    ELSE IF lo = hi THEN InsertOne(s, lo)
    ELSE LET mid == (lo + hi) \div 2
             left == InsertRange(s, lo, mid)
         IN  IF left.ok THEN InsertRange(left, mid + 1, hi) ELSE left

RawInsert(d, objs, lo, hi) ==
    InsertRange([db |-> d, objs |-> objs, ok |-> TRUE], lo, hi)

\* super().bulk_update(chunk, fields): what Django refuses with a ValueError
RawUpdateRefuses(objs, refs, fields) ==
    \/ Len(fields) = 0
    \/ \E f \in 1..Len(fields) : fields[f] = pkName
    \/ \E r \in 1..Len(refs) : objs[refs[r]].pk = None

\* super().bulk_update(chunk, fields): every stored row whose primary key an
\* instance of the chunk carries takes that instance's values of the fields
\* (CASE WHEN pk = ... : the first instance wins when two carry the same key)
FieldSet(fields) == {fields[f] : f \in 1..Len(fields)}

\* for every primary key carried in positions lo..hi of the chunk, the first
\* position that carries it
RECURSIVE FirstWithPk(_, _, _, _)
FirstWithPk(objs, refs, lo, hi) ==
    IF lo > hi THEN <<>>
    ELSE IF lo = hi THEN (objs[refs[lo]].pk :> lo)
    ELSE LET mid == (lo + hi) \div 2
         IN  FirstWithPk(objs, refs, lo, mid) @@ FirstWithPk(objs, refs, mid + 1, hi)

RawUpdate(d, objs, refs, fields) ==
    LET fs == FieldSet(fields)
        first == FirstWithPk(objs, refs, 1, Len(refs))
    IN  [d EXCEPT !.rows =
            [p \in DOMAIN d.rows |->
                IF p \in DOMAIN first
                THEN LET o == objs[refs[first[p]]]
                     IN  [a |-> IF "a" \in fs THEN o.a ELSE d.rows[p].a,
                          b |-> IF "b" \in fs THEN o.b ELSE d.rows[p].b]
                ELSE d.rows[p]]]

\* model_cls.objects.filter(pk__in=pks).delete()
RawDelete(d, pks) ==
    [d EXCEPT !.rows = [p \in DOMAIN d.rows \ pks |-> d.rows[p]]]

\* ------------------------------------------------------------ hooks
\* django_bulk_hooks.constants
BEFORE_CREATE == "BEFORE_CREATE"
AFTER_CREATE == "AFTER_CREATE"
BEFORE_UPDATE == "BEFORE_UPDATE"
AFTER_UPDATE == "AFTER_UPDATE"
BEFORE_DELETE == "BEFORE_DELETE"
AFTER_DELETE == "AFTER_DELETE"

\* Priority members by name: Priority.HIGH.value
PriorityNames == {"HIGHEST", "HIGH", "NORMAL", "LOW", "LOWEST"}
PriorityValue(name) ==
    CASE name = "HIGHEST" -> HIGHEST
      [] name = "HIGH" -> HIGH
      [] name = "NORMAL" -> NORMAL
      [] name = "LOW" -> LOW
      [] name = "LOWEST" -> LOWEST

\* A registered hook: the event, the priority (a member of Priority, by name),
\* and what its body does.
\*   noop   nothing
\*   mark   stores a flag on the context
\*   flaky  raises, or does nothing
\*   mutate assigns val to columns a and b of every instance it is given
\*   call   calls manager method op(bypass_hooks=bypass) on instances of its own
Hook(event, prio, act) ==
    [act |-> act, bypass |-> FALSE, event |-> event, op |-> "", prio |-> prio, val |-> 0]
CallHook(event, prio, op, bypass) ==
    [act |-> "call", bypass |-> bypass, event |-> event, op |-> op, prio |-> prio, val |-> 0]
MutateHook(event, prio, val) ==
    [act |-> "mutate", bypass |-> FALSE, event |-> event, op |-> "", prio |-> prio,
     val |-> val]

\* resolve_hooks(entity_type, event): the hooks of the event, as positions in the
\* registry, by priority ascending, equal priorities in registration order
RECURSIVE InsertByPriority(_, _, _)
InsertByPriority(reg, sorted, h) ==
    IF sorted = <<>> THEN <<h>>
    ELSE IF PriorityValue(reg[h].prio) < PriorityValue(reg[Head(sorted)].prio)
         THEN <<h>> \o sorted
         ELSE <<Head(sorted)>> \o InsertByPriority(reg, Tail(sorted), h)

RECURSIVE SortFrom(_, _, _, _)
SortFrom(reg, event, h, sorted) ==
    IF h > Len(reg) THEN sorted
    ELSE SortFrom(reg, event, h + 1,
                  IF reg[h].event = event
                  THEN InsertByPriority(reg, sorted, h) ELSE sorted)

ResolveHooks(reg, event) == SortFrom(reg, event, 1, <<>>)

\* TriggerContext(model_cls)
TriggerContext(model_cls) == [mark |-> FALSE, model_cls |-> model_cls]

\* the events of a manager method
BeforeEvent(op) ==
    CASE op = "bulk_create" -> BEFORE_CREATE
      [] op = "bulk_update" -> BEFORE_UPDATE
      [] op = "bulk_delete" -> BEFORE_DELETE

AfterEvent(op) ==
    CASE op = "bulk_create" -> AFTER_CREATE
      [] op = "bulk_update" -> AFTER_UPDATE
      [] op = "bulk_delete" -> AFTER_DELETE

BulkOps == {"bulk_create", "bulk_update", "bulk_delete"}

\* The registries the behaviours start from
RegNone == <<>>

OrderHooks(op) ==
    <<Hook(BeforeEvent(op), "LOW", "noop"), Hook(BeforeEvent(op), "HIGH", "mark"),
      Hook(BeforeEvent(op), "HIGH", "noop"), Hook(AfterEvent(op), "NORMAL", "noop"),
      Hook(AfterEvent(op), "HIGHEST", "noop")>>
RegOrder ==
    OrderHooks("bulk_create") \o OrderHooks("bulk_update") \o OrderHooks("bulk_delete")

FlakyHooks(op) ==
    <<Hook(BeforeEvent(op), "NORMAL", "flaky"), Hook(BeforeEvent(op), "LOW", "noop"),
      Hook(AfterEvent(op), "NORMAL", "flaky")>>
RegFlaky ==
    FlakyHooks("bulk_create") \o FlakyHooks("bulk_update") \o FlakyHooks("bulk_delete")

MutateHooks(op) ==
    <<MutateHook(BeforeEvent(op), "NORMAL", 2), Hook(BeforeEvent(op), "LOW", "noop"),
      MutateHook(AfterEvent(op), "NORMAL", 3), Hook(AfterEvent(op), "LOW", "noop")>>
RegMutate ==
    MutateHooks("bulk_create") \o MutateHooks("bulk_update") \o MutateHooks("bulk_delete")

RegNested ==
    <<CallHook(AFTER_CREATE, "NORMAL", "bulk_update", FALSE),
      Hook(BEFORE_UPDATE, "NORMAL", "mark"),
      Hook(AFTER_UPDATE, "NORMAL", "noop"),
      CallHook(BEFORE_DELETE, "NORMAL", "bulk_delete", TRUE),
      CallHook(AFTER_DELETE, "NORMAL", "bulk_create", FALSE)>>

\* hooks that call the operation that triggered them: with hooks on from
\* BEFORE_UPDATE, with bypass_hooks=True from AFTER_CREATE
RegSelf ==
    <<CallHook(BEFORE_UPDATE, "NORMAL", "bulk_update", FALSE),
      CallHook(AFTER_CREATE, "NORMAL", "bulk_create", TRUE)>>

Registries == {RegNone, RegOrder, RegFlaky, RegMutate, RegNested, RegSelf}

\* ------------------------------------------------------------ inputs

\* the largest batch: one object more than MaxChunks - 1 full chunks
Big == (MaxChunks - 1) * CHUNK_SIZE + 1
Sizes == {0, 1, Big}

\* n new instances, no primary key yet
Fresh(n) == [j \in 1..n |-> Obj(ModelCls, None, 1, 1)]
\* n instances carrying the primary keys 1..n and new column values
Existing(n) == [j \in 1..n |-> Obj(ModelCls, j, 1, 1)]
\* the batch with its last element replaced by an instance of another type
WithStranger(objs) == [objs EXCEPT ![Len(objs)].cls = OtherCls]

CreateBatches ==
    {Fresh(n) : n \in Sizes} \cup {WithStranger(Fresh(n)) : n \in Sizes \ {0}}
\* batches that name one stored row twice, and that hold an instance without a
\* primary key next to a stored one
OddBatches ==
    {<<Obj(ModelCls, 1, 1, 1), Obj(ModelCls, 1, 1, 1)>>,
     <<Obj(ModelCls, 2, 1, 1), Obj(ModelCls, None, 1, 1)>>}
StoredBatches ==
    {Existing(n) : n \in Sizes} \cup {WithStranger(Existing(n)) : n \in Sizes \ {0}}
        \cup OddBatches
FieldLists == {<<"a">>}
SaveObjs ==
    {Obj(ModelCls, pk, 1, 1) : pk \in {None, 0, 1, 2}} \cup {Obj(OtherCls, None, 1, 1)}

\* **kwargs of update: the names given (none, one, two), and the value given
\* for each
KwargNames == {<<>>, <<"a">>, <<"a", "b">>}
KwargValue(name) == IF name = "a" THEN 7 ELSE 8

\* what a hook that calls the manager passes: instances of its own
HookObjs(op) ==
    IF op = "bulk_create" THEN <<Obj(ModelCls, None, 5, 5)>>
    ELSE <<Obj(ModelCls, 1, 5, 5)>>

\* the table before the first call: the rows 1, 2 and Big, so that a batch of
\* Big instances has stored rows in its first and in its last chunk, and
\* instances whose row is not stored
InitDb == [rows |-> [p \in {1, 2, Big} |-> [a |-> 0, b |-> 0]], seq |-> Big]

\* ------------------------------------------------------------ frames

\* A manager call in progress.  sp is the storage when the method was
\* entered (transaction.atomic: the transaction's begin, or a savepoint).
\* While engine.run is under way for the call, pc is "before" or "after",
\* hooks is the resolved list, k the hook that runs next, inst the instances
\* handed over (as references into objs) and rctx the context handed over.
Frame(id, op, objs, fields, bypass) ==
    [bypass |-> bypass, ctx |-> None, event |-> "", fields |-> fields,
     hooks |-> <<>>, i |-> 0, id |-> id, inst |-> <<>>, k |-> 0, objs |-> objs,
     op |-> op, originals |-> <<>>, pc |-> "start", rctx |-> None,
     result |-> <<>>, ret |-> "", sp |-> db]

CallEntry(id, op, objs, fields, bypass, parent) ==
    [bypass |-> bypass, done |-> FALSE, fields |-> fields, id |-> id, objs |-> objs,
     op |-> op, parent |-> parent]

Top == stack[Len(stack)]
SetTop(f) == [stack EXCEPT ![Len(stack)] = f]
Running(op, pc) == stack # <<>> /\ Top.op = op /\ Top.pc = pc

\* @transaction.atomic, leaving by an exception: the storage goes back to what
\* it was when the method was entered.  The mutant keeps what was written.
AtomicOnErrorKeeps(frame) == db
AtomicOnError(frame) == frame.sp

\* An exception nobody catches leaves every method on the stack, innermost
\* first; the outermost atomic block rolls back last.
Raise(e) ==
    /\ stack' = <<>>
    /\ db' = AtomicOnError(stack[1])
    /\ last' = [last EXCEPT !.outcome = "raised", !.exc = e, !.raiser = Top.id]

\* engine.run(model_cls, event, instances, originals, ctx=ctx), called by frame f
RunEngine(f, phase, event, inst, orig, ctx) ==
    /\ stack' = SetTop([f EXCEPT !.pc = phase, !.event = event,
                                 !.hooks = ResolveHooks(registry, event),
                                 !.k = 1, !.inst = inst, !.rctx = ctx])
    /\ events' = Append(events, [call |-> f.id, ctx |-> ctx, event |-> event,
                                 inst |-> inst, orig |-> orig])
    /\ totalRuns' = totalRuns + 1

StorEntry(f, kind, refs, pks) ==
    [call |-> f.id, kind |-> kind, pks |-> pks, refs |-> refs]

PkSet(objs) == {objs[j].pk : j \in 1..Len(objs)}

\* ------------------------------------------------------------ top-level calls

Begin(op, objs, fields, bypass) ==
    /\ stack = <<>>
    /\ callNo < MaxCalls
    /\ callNo' = callNo + 1
    /\ stack' = <<Frame(1, op, objs, fields, bypass)>>
    /\ calls' = <<CallEntry(1, op, objs, fields, bypass, 0)>>
    /\ atomics' = <<1>>
    /\ pre' = db
    /\ events' = <<>>
    /\ hookLog' = <<>>
    /\ stor' = <<>>
    /\ usedCtx' = usedCtx \cup {events[e].ctx : e \in 1..Len(events)}
    /\ last' = [exc |-> "", op |-> op, outcome |-> "running", raiser |-> 0,
                ret |-> <<>>, retkind |-> ""]
    /\ allBypass' = (allBypass /\ bypass /\ op \in BulkOps)
    /\ UNCHANGED <<registry, pkName, db, ctxs, totalRuns>>

CallBulkCreate == \E objs \in CreateBatches, bypass \in BOOLEAN :
    Begin("bulk_create", objs, <<>>, bypass)

CallBulkUpdate == \E objs \in StoredBatches, fields \in FieldLists, bypass \in BOOLEAN :
    Begin("bulk_update", objs, fields, bypass)

CallBulkDelete == \E objs \in StoredBatches, bypass \in BOOLEAN :
    Begin("bulk_delete", objs, <<>>, bypass)

CallSave == \E obj \in SaveObjs : Begin("save", <<obj>>, <<>>, FALSE)

\* update(**kwargs): the frame keeps the names of kwargs, in the order given
CallUpdate == \E names \in KwargNames : Begin("update", <<>>, names, FALSE)

CallDelete == Begin("delete", <<>>, <<>>, FALSE)

\* a manager method called from inside a running one
PushCall(f, op, objs, fields, bypass) ==
    /\ stack' = Append(SetTop(f), Frame(Len(calls) + 1, op, objs, fields, bypass))
    /\ calls' = Append(calls, CallEntry(Len(calls) + 1, op, objs, fields, bypass, f.id))
    /\ atomics' = Append(atomics, Len(calls) + 1)

\* ------------------------------------------------------------ manager

\* "if not bypass_hooks"; the mutant runs the hooks whatever the flag says
HooksEnabledAlways(bypass) == TRUE
HooksEnabled(bypass) == ~bypass

\* ctx = TriggerContext(model_cls): a new instance, whose identity is its place
\* among the contexts built so far; the mutant hands out one shared instance
NewCtxShared(heap) == 1
NewCtx(heap) == Len(heap) + 1

\* the instances the method hands to engine.run: the list objs itself; the
\* mutant hands over the chunk in hand
HookInstOfChunk(f) == ChunkRefs(Len(f.objs), 0)
HookInst(f) == AllRefs(f.objs)

\* bulk_update, from its entry to BEFORE_UPDATE
BulkUpdateStart ==
    /\ Running("bulk_update", "start")
    /\ LET f == Top
       IN  IF ReturnsOnEmpty(f.op, f.objs)
           THEN /\ stack' = SetTop([f EXCEPT !.pc = "return", !.ret = "empty"])
                /\ UNCHANGED <<db, last, events, totalRuns, stor, ctxs>>
           ELSE IF TypeMismatch(f.objs)
           THEN /\ Raise("TypeError")
                /\ UNCHANGED <<events, totalRuns, stor, ctxs>>
           ELSE IF HooksEnabled(f.bypass)
           THEN LET originals == FetchByPks(db, PkSet(f.objs))
                    ctx == NewCtx(ctxs)
                IN  /\ stor' = Append(stor, StorEntry(f, "fetch", <<>>, PkSet(f.objs)))
                    /\ ctxs' = Append(ctxs, TriggerContext(ModelCls))
                    /\ RunEngine([f EXCEPT !.originals = originals, !.ctx = ctx],
                                 "before", BEFORE_UPDATE, HookInst(f), originals, ctx)
                    /\ UNCHANGED <<db, last>>
           ELSE /\ stack' = SetTop([f EXCEPT !.pc = "write"])
                /\ UNCHANGED <<db, last, events, totalRuns, stor, ctxs>>
    /\ UNCHANGED <<registry, pkName, atomics, callNo, pre, calls, hookLog, usedCtx, allBypass>>

\* the instances a chunk holds are the instances of objs themselves, as the
\* hooks left them; the mutant writes them as the caller passed them
WrittenObjsAsGiven(f) == calls[f.id].objs
WrittenObjs(f) == f.objs

\* bulk_update, one turn of the loop: super().bulk_update(chunk, fields)
BulkUpdateChunk ==
    /\ Running("bulk_update", "write")
    /\ HasChunk(Len(Top.objs), Top.i)
    /\ LET f == Top
           refs == ChunkRefs(Len(f.objs), f.i)
       IN  /\ stor' = Append(stor, StorEntry(f, "update", refs, {}))
           /\ \/ /\ RawUpdateRefuses(WrittenObjs(f), refs, f.fields)
                 /\ Raise("ValueError")
              \/ /\ ~RawUpdateRefuses(WrittenObjs(f), refs, f.fields)
                 /\ db' = RawUpdate(db, WrittenObjs(f), refs, f.fields)
                 /\ stack' = SetTop([f EXCEPT !.i = f.i + CHUNK_SIZE])
                 /\ UNCHANGED last
              \/ /\ ~RawUpdateRefuses(WrittenObjs(f), refs, f.fields)
                 /\ Raise("StorageError")
    /\ UNCHANGED <<registry, pkName, atomics, callNo, pre, calls, events, hookLog, ctxs,
                   usedCtx, totalRuns, allBypass>>

\* bulk_create, from its entry to BEFORE_CREATE (ReturnsOnEmpty is false here)
BulkCreateStart ==
    /\ Running("bulk_create", "start")
    /\ LET f == Top
       IN  IF ReturnsOnEmpty(f.op, f.objs)
           THEN /\ stack' = SetTop([f EXCEPT !.pc = "return", !.ret = "empty"])
                /\ UNCHANGED <<db, last, events, totalRuns, ctxs>>
           ELSE IF TypeMismatch(f.objs)
           THEN /\ Raise("TypeError")
                /\ UNCHANGED <<events, totalRuns, ctxs>>
           ELSE IF HooksEnabled(f.bypass)
           THEN LET ctx == NewCtx(ctxs)
                IN  /\ ctxs' = Append(ctxs, TriggerContext(ModelCls))
                    /\ RunEngine([f EXCEPT !.ctx = ctx], "before", BEFORE_CREATE,
                                 HookInst(f), <<>>, ctx)
                    /\ UNCHANGED <<db, last>>
           ELSE /\ stack' = SetTop([f EXCEPT !.pc = "write"])
                /\ UNCHANGED <<db, last, events, totalRuns, ctxs>>
    /\ UNCHANGED <<registry, pkName, atomics, callNo, pre, calls, hookLog, stor, usedCtx,
                   allBypass>>

\* bulk_create, one turn of the loop: result.extend(super().bulk_create(chunk))
BulkCreateChunk ==
    /\ Running("bulk_create", "write")
    /\ HasChunk(Len(Top.objs), Top.i)
    /\ LET f == Top
           refs == ChunkRefs(Len(f.objs), f.i)
           out == RawInsert(db, WrittenObjs(f), refs[1], refs[Len(refs)])
       IN  /\ stor' = Append(stor, StorEntry(f, "insert", refs, {}))
           /\ \/ /\ ~out.ok
                 /\ Raise("IntegrityError")
              \/ /\ out.ok
                 /\ db' = out.db
                 /\ stack' = SetTop([f EXCEPT !.i = f.i + CHUNK_SIZE,
                                              !.objs = out.objs,
                                              !.result = f.result \o refs])
                 /\ UNCHANGED last
              \/ /\ out.ok
                 /\ Raise("StorageError")
    /\ UNCHANGED <<registry, pkName, atomics, callNo, pre, calls, events, hookLog, ctxs,
                   usedCtx, totalRuns, allBypass>>

\* bulk_delete, from its entry to BEFORE_DELETE
BulkDeleteStart ==
    /\ Running("bulk_delete", "start")
    /\ LET f == Top
       IN  IF ReturnsOnEmpty(f.op, f.objs)
           THEN /\ stack' = SetTop([f EXCEPT !.pc = "return", !.ret = "empty"])
                /\ UNCHANGED <<db, last, events, totalRuns, ctxs>>
           ELSE IF TypeMismatch(f.objs)
           THEN /\ Raise("TypeError")
                /\ UNCHANGED <<events, totalRuns, ctxs>>
           ELSE LET ctx == NewCtx(ctxs)
                IN  /\ ctxs' = Append(ctxs, TriggerContext(ModelCls))
                    /\ IF HooksEnabled(f.bypass)
                       THEN RunEngine([f EXCEPT !.ctx = ctx], "before", BEFORE_DELETE,
                                      HookInst(f), <<>>, ctx)
                       ELSE /\ stack' = SetTop([f EXCEPT !.ctx = ctx, !.pc = "write"])
                            /\ UNCHANGED <<events, totalRuns>>
                    /\ UNCHANGED <<db, last>>
    /\ UNCHANGED <<registry, pkName, atomics, callNo, pre, calls, hookLog, stor, usedCtx,
                   allBypass>>

\* pks = [obj.pk for obj in objs if obj.pk is not None]; the mutant keeps None
DeletePksWithNone(objs) == PkSet(objs)
DeletePks(objs) == PkSet(objs) \ {None}

\* bulk_delete: model_cls.objects.filter(pk__in=pks).delete()
BulkDeleteWrite ==
    /\ Running("bulk_delete", "write")
    /\ HasChunk(Len(Top.objs), Top.i)
    /\ LET f == Top
           pks == DeletePks(f.objs)
       IN  /\ stor' = Append(stor, StorEntry(f, "delete", <<>>, pks))
           /\ \/ /\ db' = RawDelete(db, pks)
                 /\ stack' = SetTop([f EXCEPT !.i = Len(f.objs)])
                 /\ UNCHANGED last
              \/ Raise("StorageError")
    /\ UNCHANGED <<registry, pkName, atomics, callNo, pre, calls, events, hookLog, ctxs,
                   usedCtx, totalRuns, allBypass>>

\* what the method returns when nothing was skipped
RetKind(op) == IF op = "bulk_create" THEN "result" ELSE "objs"

\* the instances of the AFTER event: result for bulk_create, objs otherwise
AfterInst(f) == IF f.op = "bulk_create" THEN f.result ELSE HookInst(f)

\* the context of the AFTER event: the one built before the BEFORE event
AfterCtx(f) == f.ctx

\* the originals of the AFTER event: the list fetched before the BEFORE event;
\* the mutant fetches again after the writes
AfterOrigRefetched(f) == FetchByPks(db, PkSet(f.objs))
AfterOrig(f) == f.originals

\* the chunk loop has run out (for bulk_delete: the delete has returned), so
\* the statements after it run; the mutant does not wait for the writes
LoopDoneAlways(n, i) == TRUE
LoopDone(n, i) == ~HasChunk(n, i)

\* bulk_create, bulk_update, bulk_delete: after the last write, the AFTER event
AfterWrites ==
    /\ stack # <<>>
    /\ Top.op \in BulkOps
    /\ Top.pc = "write"
    /\ LoopDone(Len(Top.objs), Top.i)
    /\ LET f == Top
       IN  IF HooksEnabled(f.bypass)
           THEN RunEngine(f, "after", AfterEvent(f.op), AfterInst(f), AfterOrig(f),
                          AfterCtx(f))
           ELSE /\ stack' = SetTop([f EXCEPT !.pc = "return", !.ret = RetKind(f.op)])
                /\ UNCHANGED <<events, totalRuns>>
    /\ UNCHANGED <<registry, pkName, atomics, db, callNo, pre, calls, hookLog, stor, last,
                   ctxs, usedCtx, allBypass>>

\* save(obj)
SaveFields == SelectSeq(MetaFields(pkName), LAMBDA name : name # "id")

Save ==
    /\ Running("save", "start")
    /\ LET f == [Top EXCEPT !.pc = "wait"]
       IN  IF Truthy(f.objs[1].pk)
           THEN PushCall(f, "bulk_update", f.objs, SaveFields, FALSE)
           ELSE PushCall(f, "bulk_create", f.objs, <<>>, FALSE)
    /\ UNCHANGED <<registry, pkName, db, callNo, pre, events, hookLog, stor, last,
                   ctxs, usedCtx, totalRuns, allBypass>>

\* list(self.all()): every stored row as an instance
AllObjs(d) == FetchRange(d, DOMAIN d.rows, 0, d.seq)

\* for key, value in kwargs.items(): for obj in objs: setattr(obj, key, value);
\* the mutant leaves the instances as they were read
SetAttrsSkipped(objs, names) == objs
SetAttrs(objs, names) ==
    [j \in 1..Len(objs) |->
        [a |-> IF "a" \in FieldSet(names) THEN KwargValue("a") ELSE objs[j].a,
         b |-> IF "b" \in FieldSet(names) THEN KwargValue("b") ELSE objs[j].b,
         cls |-> objs[j].cls,
         pk |-> objs[j].pk]]

\* update(**kwargs), up to its call of bulk_update
Update ==
    /\ Running("update", "start")
    /\ stor' = Append(stor, StorEntry(Top, "fetch", <<>>, DOMAIN db.rows))
    /\ LET objs == AllObjs(db)
           f == [Top EXCEPT !.objs = SetAttrs(objs, Top.fields)]
       IN  IF IsEmpty(objs)
           THEN /\ stack' = SetTop([f EXCEPT !.pc = "return", !.ret = "count"])
                /\ UNCHANGED <<calls, atomics>>
           ELSE PushCall([f EXCEPT !.pc = "wait"], "bulk_update", f.objs, f.fields, FALSE)
    /\ UNCHANGED <<registry, pkName, db, callNo, pre, events, hookLog, last,
                   ctxs, usedCtx, totalRuns, allBypass>>

\* delete(), up to its call of bulk_delete
Delete ==
    /\ Running("delete", "start")
    /\ stor' = Append(stor, StorEntry(Top, "fetch", <<>>, DOMAIN db.rows))
    /\ LET objs == AllObjs(db)
           f == [Top EXCEPT !.objs = objs]
       IN  IF IsEmpty(objs)
           THEN /\ stack' = SetTop([f EXCEPT !.pc = "return", !.ret = "count"])
                /\ UNCHANGED <<calls, atomics>>
           ELSE PushCall([f EXCEPT !.pc = "wait"], "bulk_delete", f.objs, <<>>, FALSE)
    /\ UNCHANGED <<registry, pkName, db, callNo, pre, events, hookLog, last,
                   ctxs, usedCtx, totalRuns, allBypass>>

\* the value a method returns
RetValue(f) ==
    CASE f.ret = "empty" -> <<>>
      [] f.ret = "count" -> <<Len(f.objs)>>
      [] f.ret = "objs" -> f.objs
      [] f.ret = "result" -> [r \in 1..Len(f.result) |-> f.objs[f.result[r]]]
      [] f.ret = "obj" -> <<f.objs[1]>>

\* A method returns: its atomic block ends without an exception (the writes
\* stay), and its caller goes on.  save's obj is the one instance of the list it
\* passed on, so it sees what the callee did to it.
Return ==
    /\ stack # <<>>
    /\ Top.pc = "return"
    /\ calls' = [calls EXCEPT ![Top.id].done = TRUE]
    /\ LET f == Top
           rest == SubSeq(stack, 1, Len(stack) - 1)
       IN  IF rest = <<>>
           THEN /\ stack' = <<>>
                /\ last' = [last EXCEPT !.outcome = "returned", !.ret = RetValue(f),
                                        !.retkind = f.ret]
           ELSE LET c == rest[Len(rest)]
                IN  /\ stack' = [rest EXCEPT ![Len(rest)] =
                          IF c.op = "save"
                          THEN [c EXCEPT !.objs = f.objs, !.pc = "return", !.ret = "obj"]
                          ELSE IF c.op \in {"update", "delete"}
                          THEN [c EXCEPT !.pc = "return", !.ret = "count"]
                          ELSE [c EXCEPT !.k = c.k + 1]]
                    /\ UNCHANGED last
    /\ UNCHANGED <<registry, pkName, atomics, db, callNo, pre, events, hookLog, stor,
                   ctxs, usedCtx, totalRuns, allBypass>>

\* ------------------------------------------------------------ engine

InEngine == stack # <<>> /\ Top.pc \in {"before", "after"}

\* a is what the hook reads in column a of the first instance it is given
HookEntry(f) ==
    [a |-> IF f.inst = <<>> THEN None ELSE f.objs[f.inst[1]].a,
     call |-> f.id, ctx |-> f.rctx, event |-> f.event,
     prio |-> registry[f.hooks[f.k]].prio, reg |-> f.hooks[f.k],
     saw |-> ctxs[f.rctx].mark]

\* engine.run: the next hook of the event runs, from its call to its return
\* (or to the manager call it makes, which Return brings it back from)
RunHook ==
    /\ InEngine
    /\ Top.k <= Len(Top.hooks)
    /\ LET f == Top
           h == registry[f.hooks[f.k]]
           next == [f EXCEPT !.k = f.k + 1]
       IN  /\ hookLog' = Append(hookLog, HookEntry(f))
           /\ \/ /\ h.act = "noop"
                 /\ stack' = SetTop(next)
                 /\ UNCHANGED <<db, last, ctxs, calls, atomics>>
              \/ /\ h.act = "mark"
                 /\ ctxs' = [ctxs EXCEPT ![f.rctx].mark = TRUE]
                 /\ stack' = SetTop(next)
                 /\ UNCHANGED <<db, last, calls, atomics>>
              \/ /\ h.act = "flaky"
                 /\ stack' = SetTop(next)
                 /\ UNCHANGED <<db, last, ctxs, calls, atomics>>
              \/ /\ h.act = "flaky"
                 /\ Raise("HookError")
                 /\ UNCHANGED <<ctxs, calls, atomics>>
              \/ /\ h.act = "mutate"
                 /\ stack' = SetTop([next EXCEPT !.objs =
                        [j \in 1..Len(f.objs) |->
                            IF j \in {f.inst[r] : r \in 1..Len(f.inst)}
                            THEN [f.objs[j] EXCEPT !.a = h.val, !.b = h.val]
                            ELSE f.objs[j]]])
                 /\ UNCHANGED <<db, last, ctxs, calls, atomics>>
              \/ /\ h.act = "call"
                 /\ Len(stack) < MaxDepth
                 /\ PushCall(f, h.op, HookObjs(h.op), <<"a">>, h.bypass)
                 /\ UNCHANGED <<db, last, ctxs>>
    /\ UNCHANGED <<registry, pkName, callNo, pre, events, stor, usedCtx, totalRuns,
                   allBypass>>

\* engine.run returns: every hook of the event has run
EngineReturn ==
    /\ InEngine
    /\ Top.k > Len(Top.hooks)
    /\ stack' = SetTop(IF Top.pc = "before"
                       THEN [Top EXCEPT !.pc = "write"]
                       ELSE [Top EXCEPT !.pc = "return", !.ret = RetKind(Top.op)])
    /\ UNCHANGED <<registry, pkName, atomics, db, callNo, pre, calls, events, hookLog, stor,
                   last, ctxs, usedCtx, totalRuns, allBypass>>

\* ------------------------------------------------------------ specification

\* before the first call: nothing is running and nothing was built
Fresh0 ==
    /\ db = InitDb
    /\ stack = <<>>
    /\ callNo = 0
    /\ pre = InitDb
    /\ calls = <<>>
    /\ events = <<>>
    /\ hookLog = <<>>
    /\ stor = <<>>
    /\ last = [exc |-> "", op |-> "", outcome |-> "none", raiser |-> 0,
               ret |-> <<>>, retkind |-> ""]
    /\ ctxs = <<>>
    /\ usedCtx = {}
    /\ totalRuns = 0
    /\ allBypass = TRUE
    /\ atomics = <<>>

\* a model whose primary-key field is "id" with each of the registries, and a
\* model whose primary-key field is "code"
Init ==
    /\ \E c \in {<<r, "id">> : r \in Registries} \cup {<<RegNone, "code">>} :
          registry = c[1] /\ pkName = c[2]
    /\ Fresh0

Next ==
    \/ CallBulkCreate
    \/ CallBulkUpdate
    \/ CallBulkDelete
    \/ CallSave
    \/ CallUpdate
    \/ CallDelete
    \/ BulkUpdateStart
    \/ BulkUpdateChunk
    \/ BulkCreateStart
    \/ BulkCreateChunk
    \/ BulkDeleteStart
    \/ BulkDeleteWrite
    \/ AfterWrites
    \/ Save
    \/ Update
    \/ Delete
    \/ Return
    \/ RunHook
    \/ EngineReturn

Spec == Init /\ [][Next]_vars


\* ------------------------------------------------------------ engine alone
\* The second specification tries every registry of up to MaxHooks hooks on
\* the two delete events, every priority and every registration order, under
\* bulk_delete of one stored instance.

AllRegistries ==
    UNION {{[j \in 1..n |-> Hook(ev[j], pr[j], "noop")] :
              ev \in [1..n -> {BEFORE_DELETE, AFTER_DELETE}],
              pr \in [1..n -> PriorityNames]} : n \in 0..MaxHooks}

InitPriority ==
    /\ registry \in AllRegistries
    /\ pkName = "id"
    /\ Fresh0

CallDeleteOne == Begin("bulk_delete", Existing(1), <<>>, FALSE)

NextPriority ==
    \/ CallDeleteOne
    \/ BulkDeleteStart
    \/ BulkDeleteWrite
    \/ AfterWrites
    \/ RunHook
    \/ EngineReturn
    \/ Return

SpecPriority == InitPriority /\ [][NextPriority]_vars

\* ------------------------------------------------------------ claims

Idle == stack = <<>>
Returned == Idle /\ last.outcome = "returned"
Raised == Idle /\ last.outcome = "raised"

\* the top-level call, once one was made
TopCall == calls[1]
\* the engine.run invocations, hooks and storage calls of manager call c
EventsOf(c) == SelectSeq(events, LAMBDA e : e.call = c)
WritesOf(c) == SelectSeq(stor, LAMBDA w : w.call = c /\ w.kind # "fetch")
\* the manager calls that call c made itself
ChildrenOf(c) == SelectSeq(calls, LAMBDA x : x.parent = c)

\* a batch holds an instance that is not of the manager's entity type
HasStranger(objs) == \E j \in 1..Len(objs) : objs[j].cls = OtherCls

\* C1: a top-level bulk_create, bulk_update or bulk_delete that raised (in a
\* BEFORE hook, in the write of any chunk, in an AFTER hook) leaves the storage
\* as it was before the call
C1_Atomic ==
    (Raised /\ last.op \in BulkOps) => db = pre

\* C1 happens: the second chunk of a bulk_create failed after the first was written
C1_Witness ==
    /\ Raised
    /\ last.op = "bulk_create"
    /\ last.exc = "StorageError"
    /\ Len(stor) = 2
    /\ stor[1].kind = "insert"

\* C2: every bulk_create call, and every bulk_update call on a batch that is
\* not empty, that ran with bypass_hooks=False and returned made exactly two
\* engine.run invocations: the BEFORE event with all the objects (for update,
\* with the originals fetched before the writes), then the AFTER event with
\* all the objects and the same originals, whatever the number of chunks
C2_WholeBatchOnce ==
    \A c \in 1..Len(calls) :
        LET x == calls[c]
            ev == EventsOf(c)
        IN  (/\ x.done
             /\ ~x.bypass
             /\ \/ x.op = "bulk_create"
                \/ x.op = "bulk_update" /\ x.objs # <<>>)
            => /\ Len(ev) = 2
               /\ ev[1].event = BeforeEvent(x.op)
               /\ ev[2].event = AfterEvent(x.op)
               /\ ev[1].inst = [j \in 1..Len(x.objs) |-> j]
               /\ ev[2].inst = [j \in 1..Len(x.objs) |-> j]
               /\ ev[2].orig = ev[1].orig
               /\ (x.op = "bulk_update" /\ c = 1)
                     => ev[1].orig = FetchByPks(pre, PkSet(x.objs))

\* C2 happens: a bulk_update with hooks, written in more than one chunk, returned
C2_Witness ==
    /\ Returned
    /\ last.op = "bulk_update"
    /\ ~TopCall.bypass
    /\ Len(TopCall.objs) > CHUNK_SIZE
    /\ Len(WritesOf(1)) > 1
    /\ Len(EventsOf(1)) = 2
    /\ EventsOf(1)[1].orig # <<>>

\* what the raw write of top-level call x leaves in the storage
RawWriteDone(x) ==
    CASE x.op = "bulk_create" ->
            /\ Len(last.ret) = Len(x.objs)
            /\ \A j \in 1..Len(last.ret) :
                  /\ last.ret[j].pk \in DOMAIN db.rows \ DOMAIN pre.rows
                  /\ db.rows[last.ret[j].pk] = Row(x.objs[j])
      [] x.op = "bulk_update" ->
            \A j \in 1..Len(x.objs) :
                x.objs[j].pk \in DOMAIN pre.rows
                    => db.rows[x.objs[j].pk].a = x.objs[j].a
      [] x.op = "bulk_delete" ->
            DOMAIN db.rows = DOMAIN pre.rows \ PkSet(x.objs)

C4_TypeCheckFirst ==
    (calls # <<>> /\ TopCall.op \in BulkOps /\ HasStranger(TopCall.objs))
        => /\ events = <<>>
           /\ hookLog = <<>>
           /\ stor = <<>>
           /\ db = pre
           /\ Idle => (last.outcome = "raised" /\ last.exc = "TypeError")

\* C4 happens: a bulk_update with hooks on, on a batch of several chunks whose
\* last instance is a stranger, has raised
C4_Witness ==
    /\ Raised
    /\ last.exc = "TypeError"
    /\ last.op = "bulk_update"
    /\ ~TopCall.bypass
    /\ registry = RegOrder
    /\ Len(TopCall.objs) > CHUNK_SIZE

\* C5: a top-level bulk_update or bulk_delete on the empty batch, whatever
\* bypass_hooks is, makes no engine.run invocation, runs no hook, issues no
\* storage call, builds no context, and returns an empty sequence
C5_EmptyShortCircuit ==
    (calls # <<>> /\ TopCall.op \in {"bulk_update", "bulk_delete"} /\ TopCall.objs = <<>>)
        => /\ events = <<>>
           /\ hookLog = <<>>
           /\ stor = <<>>
           /\ db = pre
           /\ Idle => (last.outcome = "returned" /\ last.ret = <<>>)

\* C5 happens: bulk_delete([]) with hooks on, under a registry with delete hooks
C5_Witness ==
    /\ Returned
    /\ last.op = "bulk_delete"
    /\ TopCall.objs = <<>>
    /\ ~TopCall.bypass
    /\ registry = RegOrder

\* the place of a priority in the order the claim states
RankOf(name) ==
    CASE name = "HIGHEST" -> 1
      [] name = "HIGH" -> 2
      [] name = "NORMAL" -> 3
      [] name = "LOW" -> 4
      [] name = "LOWEST" -> 5

\* the hooks registered on an event, as positions in the registry
RegisteredOn(event) == {h \in 1..Len(registry) : registry[h].event = event}

\* C6: the five priorities have the values 0 < 25 < 50 < 75 < 100; within one
\* engine.run invocation a hook of an earlier priority (HIGH before LOW) has
\* run before a hook of a later one starts, hooks of equal priority run in
\* registration order, and once the invocation is over every hook registered
\* on the event has run exactly once
C6_PriorityOrder ==
    /\ HIGHEST = 0 /\ HIGH = 25 /\ NORMAL = 50 /\ LOW = 75 /\ LOWEST = 100
    /\ \A i, j \in 1..Len(hookLog) :
          LET x == hookLog[i]
              y == hookLog[j]
          IN  (/\ x.call = y.call
               /\ x.event = y.event
               /\ \/ RankOf(x.prio) < RankOf(y.prio)
                  \/ x.prio = y.prio /\ x.reg < y.reg)
              => i < j
    /\ Returned =>
          \A e \in 1..Len(events) :
              \A h \in RegisteredOn(events[e].event) :
                  Cardinality({i \in 1..Len(hookLog) :
                                  /\ hookLog[i].call = events[e].call
                                  /\ hookLog[i].event = events[e].event
                                  /\ hookLog[i].reg = h}) = 1

\* C6 happens: in one invocation a HIGH hook registered after a LOW hook ran
\* before it, and two hooks of one priority ran too
C6_Witness ==
    /\ Returned
    /\ \E i, j, k \in 1..Len(hookLog) :
          /\ i < j
          /\ hookLog[i].event = hookLog[j].event
          /\ hookLog[i].event = hookLog[k].event
          /\ hookLog[i].prio = "HIGH"
          /\ hookLog[j].prio = "LOW"
          /\ hookLog[i].reg > hookLog[j].reg
          /\ k # j
          /\ hookLog[k].prio = "LOW"

\* save has got past its test of obj.pk
SaveRouted ==
    /\ calls # <<>>
    /\ TopCall.op = "save"
    /\ \/ Idle
       \/ ~Running("save", "start")

\* C7: save(obj) on an obj whose primary key is None calls bulk_create once,
\* with the batch [obj], calls bulk_update never, and returns obj
C7_SaveCreates ==
    (SaveRouted /\ TopCall.objs[1].pk = None)
        => /\ Len(ChildrenOf(1)) = 1
           /\ ChildrenOf(1)[1].op = "bulk_create"
           /\ ChildrenOf(1)[1].objs = TopCall.objs
           /\ Returned =>
                 /\ last.retkind = "obj"
                 /\ Len(last.ret) = 1
                 /\ last.ret[1].pk \in DOMAIN db.rows \ DOMAIN pre.rows

\* C7 happens: such a save returned
C7_Witness ==
    /\ Returned
    /\ last.op = "save"
    /\ TopCall.objs[1].pk = None
    /\ calls[2].done

\* every field of the model except the primary-key field
AllButPk == SelectSeq(MetaFields(pkName), LAMBDA name : name # pkName)

\* C8: save(obj) on an obj with a primary key that is set, whatever its value
\* and whatever the primary-key field is called, calls bulk_update once, on
\* [obj] with every field except the primary-key field, and bulk_create never
C8_SaveUpdates ==
    (SaveRouted /\ TopCall.objs[1].pk # None)
        => /\ Len(ChildrenOf(1)) = 1
           /\ ChildrenOf(1)[1].op = "bulk_update"
           /\ ChildrenOf(1)[1].objs = TopCall.objs
           /\ ChildrenOf(1)[1].fields = AllButPk

\* C8 where the code does it: the primary key is set and not 0 and the
\* primary-key field is called "id"
C8_SaveUpdatesIdNonZero ==
    (SaveRouted /\ Truthy(TopCall.objs[1].pk) /\ pkName = "id")
        => /\ Len(ChildrenOf(1)) = 1
           /\ ChildrenOf(1)[1].op = "bulk_update"
           /\ ChildrenOf(1)[1].objs = TopCall.objs
           /\ ChildrenOf(1)[1].fields = AllButPk

\* C9: in a bulk call with hooks on, the AFTER event gets the context instance
\* the BEFORE event got, so that what a BEFORE hook stored on it an AFTER hook
\* sees; the context is built for the manager's entity type; and no context
\* handed to the engine was handed to it during an earlier top-level call
C9_OneContextPerCall ==
    /\ \A d, e \in 1..Len(events) :
          events[d].call = events[e].call => events[d].ctx = events[e].ctx
    /\ \A e \in 1..Len(events) :
          /\ events[e].ctx \in DOMAIN ctxs
          /\ ctxs[events[e].ctx].model_cls = ModelCls
          /\ events[e].ctx \notin usedCtx
    /\ \A i, j \in 1..Len(hookLog) :
          (/\ i < j
           /\ hookLog[i].call = hookLog[j].call
           /\ registry[hookLog[i].reg].act = "mark")
          => hookLog[j].saw

\* C9 happens: the second top-level call has run its AFTER hooks, which saw
\* what a BEFORE hook of the call stored, and the first call had a context too
C9_Witness ==
    /\ Returned
    /\ callNo = 2
    /\ usedCtx # {}
    /\ Len(EventsOf(1)) = 2
    /\ \E j \in 1..Len(hookLog) :
          hookLog[j].event = AfterEvent(last.op) /\ hookLog[j].saw

\* C10: every engine.run invocation made during one top-level call, those of
\* the manager calls that hooks make included, gets the same context instance
C10_NestedShareContext ==
    \A d, e \in 1..Len(events) : events[d].ctx = events[e].ctx

\* the primary keys of the instances an engine.run invocation was given
InstPks(e) == [j \in 1..Len(e.inst) |-> calls[e.call].objs[e.inst[j]].pk]

\* C11: in every bulk_update with hooks on, the originals handed to BEFORE_UPDATE
\* and to AFTER_UPDATE are as many as the instances, and every instance has
\* exactly one original with its primary key, whatever the batch (rows that
\* are not stored, instances without a primary key, a primary key named twice)
C11_OriginalsPaired ==
    \A e \in 1..Len(events) :
        events[e].event \in {BEFORE_UPDATE, AFTER_UPDATE}
            => /\ Len(events[e].orig) = Len(events[e].inst)
               /\ \A j \in 1..Len(events[e].inst) :
                      Cardinality({o \in 1..Len(events[e].orig) :
                          events[e].orig[o].pk = InstPks(events[e])[j]}) = 1

\* the batches on which the code does pair them: every instance names a stored
\* row of its own
C11_PairedWhenAllStored ==
    \A e \in 1..Len(events) :
        (/\ events[e].event \in {BEFORE_UPDATE, AFTER_UPDATE}
         /\ events[e].call = 1
         /\ \A j \in 1..Len(TopCall.objs) : TopCall.objs[j].pk \in DOMAIN pre.rows
         /\ Cardinality(PkSet(TopCall.objs)) = Len(TopCall.objs))
            => /\ Len(events[e].orig) = Len(events[e].inst)
               /\ \A j \in 1..Len(events[e].inst) :
                      Cardinality({o \in 1..Len(events[e].orig) :
                          events[e].orig[o].pk = InstPks(events[e])[j]}) = 1

\* the originals are the rows that storage d holds for the primary keys of objs,
\* with the values d holds
SnapshotOf(orig, d, objs) ==
    /\ \A o \in 1..Len(orig) :
          /\ orig[o].pk \in DOMAIN d.rows
          /\ \E j \in 1..Len(objs) : objs[j].pk = orig[o].pk
          /\ orig[o].a = d.rows[orig[o].pk].a
          /\ orig[o].b = d.rows[orig[o].pk].b
    /\ \A j \in 1..Len(objs) :
          objs[j].pk \in DOMAIN d.rows
              => \E o \in 1..Len(orig) : orig[o].pk = objs[j].pk

\* C12: in a bulk_update with hooks on, the originals of BEFORE_UPDATE and of
\* AFTER_UPDATE are the rows as the storage held them when the call was
\* entered, before its first chunk was written: stored values, not the values
\* of the instances and not the values the call has written; and AFTER_UPDATE
\* gets the same instances as BEFORE_UPDATE
C12_OriginalsSnapshot ==
    /\ \A s \in 1..Len(stack) :
          stack[s].op = "bulk_update" =>
              \A e \in 1..Len(events) :
                  events[e].call = stack[s].id
                      => SnapshotOf(events[e].orig, stack[s].sp, stack[s].objs)
    /\ \A e \in 1..Len(events) :
          (events[e].call = 1 /\ TopCall.op = "bulk_update")
              => SnapshotOf(events[e].orig, pre, TopCall.objs)
    /\ \A d, e \in 1..Len(events) :
          (/\ events[d].call = events[e].call
           /\ events[d].event = BEFORE_UPDATE
           /\ events[e].event = AFTER_UPDATE)
              => /\ events[e].orig = events[d].orig
                 /\ events[e].inst = events[d].inst

\* C12 happens: a bulk_update with hooks on returned after writing rows in two
\* chunks; the originals of AFTER_UPDATE differ from the values of the
\* instances and from what the storage holds now
C12_Witness ==
    /\ Returned
    /\ last.op = "bulk_update"
    /\ Len(WritesOf(1)) > 1
    /\ Len(EventsOf(1)) = 2
    /\ EventsOf(1)[2].event = AFTER_UPDATE
    /\ \E o \in 1..Len(EventsOf(1)[2].orig) :
          LET orig == EventsOf(1)[2].orig[o]
          IN  /\ orig.a # db.rows[orig.pk].a
              /\ \E j \in 1..Len(last.ret) :
                    last.ret[j].pk = orig.pk /\ last.ret[j].a # orig.a

\* the primary keys of a batch, in order
PksOf(objs) == [j \in 1..Len(objs) |-> objs[j].pk]

\* the primary keys of a batch that are assigned
AssignedPks(objs) == {objs[j].pk : j \in {i \in 1..Len(objs) : objs[i].pk # None}}

UpdateRouted ==
    /\ calls # <<>>
    /\ TopCall.op = "update"
    /\ \/ Idle
       \/ ~Running("update", "start")

\* the manager calls, engine.run invocations and writes that are not reads
NoHookNoWrite ==
    /\ Len(calls) = 1
    /\ events = <<>>
    /\ hookLog = <<>>
    /\ SelectSeq(stor, LAMBDA w : w.kind # "fetch") = <<>>

\* C14: update(**kwargs) that matches no instance makes no manager call, runs
\* no hook, writes nothing and returns 0.  Otherwise it calls bulk_update once,
\* with hooks on, on one instance per stored row, each carrying the given
\* value in every given field and its stored value in the others, and with
\* the given names as fields; when it returns, BEFORE_UPDATE and AFTER_UPDATE
\* have run once each and the result is the number of instances matched
C14_Update ==
    UpdateRouted =>
        IF DOMAIN pre.rows = {}
        THEN /\ NoHookNoWrite
             /\ db = pre
             /\ Idle => (last.outcome = "returned" /\ last.ret = <<0>>)
        ELSE /\ Len(ChildrenOf(1)) = 1
             /\ LET x == ChildrenOf(1)[1]
                IN  /\ x.op = "bulk_update"
                    /\ ~x.bypass
                    /\ x.fields = TopCall.fields
                    /\ Len(x.objs) = Cardinality(DOMAIN pre.rows)
                    /\ PkSet(x.objs) = DOMAIN pre.rows
                    /\ \A j \in 1..Len(x.objs) :
                          /\ x.objs[j].a = IF Len(x.fields) >= 1 THEN 7
                                           ELSE pre.rows[x.objs[j].pk].a
                          /\ x.objs[j].b = IF Len(x.fields) = 2 THEN 8
                                           ELSE pre.rows[x.objs[j].pk].b
             /\ Returned =>
                   /\ last.ret = <<Cardinality(DOMAIN pre.rows)>>
                   /\ Len(EventsOf(2)) = 2
                   /\ EventsOf(2)[1].event = BEFORE_UPDATE
                   /\ EventsOf(2)[2].event = AFTER_UPDATE
                   /\ \A p \in DOMAIN pre.rows : p \in DOMAIN db.rows

\* C14 happens: update(a=7, b=8) returned 3 after writing three stored rows,
\* under a registry with hooks on the update events
C14_Witness ==
    /\ Returned
    /\ last.op = "update"
    /\ registry = RegOrder
    /\ last.ret = <<3>>
    /\ \A p \in DOMAIN db.rows : db.rows[p] = [a |-> 7, b |-> 8]
    /\ Len(hookLog) = 5

\* C14, no match: update on an empty table returned 0
C14_WitnessEmpty ==
    /\ Returned
    /\ last.op = "update"
    /\ registry = RegOrder
    /\ last.ret = <<0>>

\* C15: a top-level bulk_create, bulk_update or bulk_delete whose batch holds an
\* instance of another type, and a top-level bulk_update or bulk_delete on the
\* empty batch, never enters a transaction
C15_CheckBeforeTransaction ==
    (/\ calls # <<>>
     /\ TopCall.op \in BulkOps
     /\ \/ HasStranger(TopCall.objs)
        \/ TopCall.op \in {"bulk_update", "bulk_delete"} /\ TopCall.objs = <<>>)
        => atomics = <<>>

\* what the code does instead: the atomic block is entered first, and such a
\* call leaves it without having touched the storage
C15_EntersThenLeavesClean ==
    (/\ calls # <<>>
     /\ TopCall.op \in BulkOps
     /\ \/ HasStranger(TopCall.objs)
        \/ TopCall.op \in {"bulk_update", "bulk_delete"} /\ TopCall.objs = <<>>)
        => /\ atomics = <<1>>
           /\ stor = <<>>
           /\ db = pre

\* the writes a bulk call on n instances issues when nothing fails
WritesDue(op, n) ==
    IF op = "bulk_delete" THEN 1 ELSE (n + CHUNK_SIZE - 1) \div CHUNK_SIZE

WriteErrors == {"StorageError", "IntegrityError", "ValueError"}

\* C16: in every bulk_create, bulk_update and bulk_delete call with hooks on,
\* no write of the call is issued before its BEFORE event is over; its AFTER
\* event starts only when all its writes are done, and no write follows; if
\* a BEFORE hook raises, the call has issued no write and run no AFTER event;
\* if a write raises, the call has run no AFTER event and issues no other write
C16_PhaseOrder ==
    \A c \in 1..Len(calls) :
        LET x == calls[c]
            ev == EventsOf(c)
            w == WritesOf(c)
        IN  (x.op \in BulkOps /\ ~x.bypass) =>
               /\ Len(ev) <= 2
               /\ Len(w) <= WritesDue(x.op, Len(x.objs))
               /\ Len(ev) >= 1 => ev[1].event = BeforeEvent(x.op)
               /\ Len(ev) = 2 => /\ ev[2].event = AfterEvent(x.op)
                                 /\ Len(w) = WritesDue(x.op, Len(x.objs))
               /\ Len(ev) = 0 => w = <<>>
               /\ \A s \in 1..Len(stack) :
                     (stack[s].id = c /\ stack[s].pc \in {"start", "before"})
                         => w = <<>>
               /\ (Raised /\ last.raiser = c /\ last.exc = "HookError" /\ Len(ev) = 1)
                     => w = <<>>
               /\ (Raised /\ last.raiser = c /\ last.exc \in WriteErrors)
                     => Len(ev) = 1 /\ Len(w) >= 1

\* C16 happens: under a registry with hooks on both events, the first of the
\* two chunks of a bulk_update failed; BEFORE_UPDATE had run, AFTER_UPDATE not
C16_Witness ==
    /\ Raised
    /\ last.op = "bulk_update"
    /\ last.exc = "StorageError"
    /\ registry = RegOrder
    /\ ~TopCall.bypass
    /\ Len(TopCall.objs) > CHUNK_SIZE
    /\ Len(WritesOf(1)) = 1
    /\ Len(EventsOf(1)) = 1
    /\ Len(hookLog) = 3

\* the chunks of a sequence of storage calls, one after the other
RECURSIVE ConcatRefs(_)
ConcatRefs(w) == IF w = <<>> THEN <<>> ELSE Head(w).refs \o ConcatRefs(Tail(w))

\* C17: the chunks that a bulk_create or bulk_update call on N instances hands
\* to the underlying primitive hold at most 200 instances each and, one after
\* the other, are the instances 1, 2, 3, ... of the batch, none twice and none
\* left out; a call that has returned has issued ceil(N / 200) of them, which
\* together are the N instances; and the result of bulk_create is the
\* per-chunk results one after the other: the N instances in the order given
C17_ChunkPartition ==
    /\ \A c \in 1..Len(calls) :
          LET x == calls[c]
              w == WritesOf(c)
              all == ConcatRefs(w)
          IN  x.op \in {"bulk_create", "bulk_update"} =>
                 /\ \A k \in 1..Len(w) :
                       /\ Len(w[k].refs) <= CHUNK_SIZE
                       /\ Len(w[k].refs) >= 1
                       /\ w[k].kind = (IF x.op = "bulk_create" THEN "insert" ELSE "update")
                 /\ all = [j \in 1..Len(all) |-> j]
                 /\ Len(all) <= Len(x.objs)
                 /\ x.done =>
                       /\ Len(all) = Len(x.objs)
                       /\ Len(w) * CHUNK_SIZE >= Len(x.objs)
                       /\ (Len(w) - 1) * CHUNK_SIZE < Len(x.objs) \/ Len(w) = 0
    /\ \A s \in 1..Len(stack) :
          stack[s].op = "bulk_create" =>
              /\ stack[s].result = [j \in 1..Len(stack[s].result) |-> j]
              /\ stack[s].pc \in {"after", "return"}
                    => Len(stack[s].result) = Len(stack[s].objs)
    /\ (Returned /\ last.op = "bulk_create")
          => /\ last.retkind = "result"
             /\ Len(last.ret) = Len(TopCall.objs)

\* C17 happens: a bulk_create of more than 200 instances returned them all,
\* written in more than one chunk, the last chunk shorter than the first
C17_Witness ==
    /\ Returned
    /\ last.op = "bulk_create"
    /\ Len(last.ret) > CHUNK_SIZE
    /\ Len(WritesOf(1)) > 1
    /\ Len(WritesOf(1)[1].refs) = CHUNK_SIZE
    /\ Len(WritesOf(1)[Len(WritesOf(1))].refs) < CHUNK_SIZE

\* the hooks of call c that ran on an event and do the given thing
HooksRun(c, event, act) ==
    SelectSeq(hookLog, LAMBDA h :
        h.call = c /\ h.event = event /\ registry[h.reg].act = act)

\* C18: under the registry whose BEFORE hook assigns 2 and whose AFTER hook
\* assigns 3 to the columns of every instance, in a top-level bulk_create or
\* bulk_update with hooks on: the hooks that run after the BEFORE hook read 2,
\* the hook that runs after the AFTER hook reads 3; the rows the call wrote
\* hold 2 (for bulk_update in the column named in fields, the other column as
\* stored before); and no row holds 3, though the instances returned do
C18_HookMutations ==
    (/\ registry = RegMutate
     /\ calls # <<>>
     /\ TopCall.op \in {"bulk_create", "bulk_update"}
     /\ ~TopCall.bypass
     /\ TopCall.objs # <<>>)
        => /\ \A h \in 1..Len(HooksRun(1, BeforeEvent(TopCall.op), "noop")) :
                 HooksRun(1, BeforeEvent(TopCall.op), "noop")[h].a = 2
           /\ \A h \in 1..Len(HooksRun(1, AfterEvent(TopCall.op), "mutate")) :
                 HooksRun(1, AfterEvent(TopCall.op), "mutate")[h].a = 2
           /\ \A h \in 1..Len(HooksRun(1, AfterEvent(TopCall.op), "noop")) :
                 HooksRun(1, AfterEvent(TopCall.op), "noop")[h].a = 3
           /\ \A p \in DOMAIN db.rows : db.rows[p].a # 3 /\ db.rows[p].b # 3
           /\ Returned =>
                 \A j \in 1..Len(last.ret) :
                     /\ last.ret[j].a = 3
                     /\ last.ret[j].pk \in DOMAIN pre.rows =>
                           /\ TopCall.op = "bulk_update"
                           /\ db.rows[last.ret[j].pk].a = 2
                           /\ db.rows[last.ret[j].pk].b = pre.rows[last.ret[j].pk].b
                     /\ TopCall.op = "bulk_create" =>
                           /\ last.ret[j].pk \in DOMAIN db.rows \ DOMAIN pre.rows
                           /\ db.rows[last.ret[j].pk] = [a |-> 2, b |-> 2]

\* C18 happens: such a bulk_update returned, having written stored rows in two
\* chunks, after all four hooks ran
C18_Witness ==
    /\ registry = RegMutate
    /\ Returned
    /\ last.op = "bulk_update"
    /\ ~TopCall.bypass
    /\ Len(WritesOf(1)) > 1
    /\ Len(hookLog) = 4
    /\ \E p \in DOMAIN db.rows : db.rows[p].a = 2 /\ pre.rows[p].a # 2

\* the manager calls in progress that are running the hooks of an event
InChainOf(event) ==
    {s \in 1..Len(stack) : stack[s].pc \in {"before", "after"} /\ stack[s].event = event}

AllEvents ==
    {BEFORE_CREATE, AFTER_CREATE, BEFORE_UPDATE, AFTER_UPDATE, BEFORE_DELETE, AFTER_DELETE}

\* C19: when a hook calls, with hooks on, the operation that triggered it, the
\* hooks of the event are not triggered again and again: the calls that are
\* running the hooks of one event inside one another stay fewer than the
\* depth to which calls may nest at all
C19_ReentryBounded ==
    \A event \in AllEvents : Cardinality(InChainOf(event)) < MaxDepth

\* the half of C19 that the code keeps: a manager call made with
\* bypass_hooks=True from a hook triggers no engine.run, and the call that
\* triggered the hook goes on to return
C19_BypassedNestedQuiet ==
    /\ \A c \in 1..Len(calls) : calls[c].bypass => EventsOf(c) = <<>>
    /\ (registry = RegSelf /\ Returned /\ last.op = "bulk_create" /\ ~TopCall.bypass)
          => /\ Len(EventsOf(1)) = 2
             /\ Len(ChildrenOf(1)) = 1
             /\ Len(events) = 2

\* that half happens
C19_BypassedNestedReturns ==
    /\ registry = RegSelf
    /\ Returned
    /\ last.op = "bulk_create"
    /\ ~TopCall.bypass
    /\ Len(calls) = 2
    /\ calls[2].done

\* C20: a top-level bulk_create on the empty batch issues no storage call; with
\* bypass_hooks=True it runs no hook; with hooks on, when it returns, it has
\* run BEFORE_CREATE once and AFTER_CREATE once, each with no instance; and it
\* returns an empty list
C20_CreateEmptyRunsHooks ==
    (calls # <<>> /\ TopCall.op = "bulk_create" /\ TopCall.objs = <<>>)
        => /\ SelectSeq(stor, LAMBDA w : w.call = 1) = <<>>
           /\ TopCall.bypass => (events = <<>> /\ hookLog = <<>>)
           /\ Returned =>
                 /\ last.retkind = "result"
                 /\ last.ret = <<>>
                 /\ ~TopCall.bypass =>
                       /\ Len(EventsOf(1)) = 2
                       /\ EventsOf(1)[1].event = BEFORE_CREATE
                       /\ EventsOf(1)[1].inst = <<>>
                       /\ EventsOf(1)[2].event = AFTER_CREATE
                       /\ EventsOf(1)[2].inst = <<>>
                       /\ \A h \in RegisteredOn(BEFORE_CREATE) \cup RegisteredOn(AFTER_CREATE) :
                             \E i \in 1..Len(hookLog) :
                                 hookLog[i].call = 1 /\ hookLog[i].reg = h

\* C20 happens: bulk_create([]) with hooks on returned, and the five hooks
\* registered on the create events have run
C20_Witness ==
    /\ Returned
    /\ last.op = "bulk_create"
    /\ TopCall.objs = <<>>
    /\ ~TopCall.bypass
    /\ registry = RegOrder
    /\ Len(hookLog) = 5
    /\ stor = <<>>

====
